---- MODULE Spec2Model ----
(***************************************************************************)
(* A model of csiro_workspace/workspace.py: the Workspace supervisor, its  *)
(* watch registry, list-query slots, completion handlers, the static poll  *)
(* with its termination sweep, and the process-wide registries.            *)
(*                                                                         *)
(* The Python program is single threaded.  Its call stack is modelled by   *)
(* the variable stack: the main program runs when the stack is empty, a    *)
(* "poll" frame is Workspace.poll inside server_poll, and a "handler"      *)
(* frame is a user callable entered from one of the ctypes callbacks.      *)
(* User code (the main program or a running handler) may call every public *)
(* method, poll included, so handlers re-enter the supervisor.             *)
(***************************************************************************)
EXTENDS Integers, Sequences, FiniteSets, TLC

(***************************************************************************)
(* Bounds of the model.                                                    *)
(***************************************************************************)
MaxPending == 2      \* events the channel holds undelivered
MaxEvents  == 2      \* events the engines emit in one run
MaxNesting == 2      \* polls in progress at once (a handler may call poll)
MaxQueue   == 3      \* length of Workspace._terminating_processes
MaxQueries == 2      \* list queries issued in one run
MaxTicks   == 2      \* clock advances in one run
MaxWaits   == 2      \* WrapperFunc objects around one callable
MaxNames   == 2      \* names in one list given to WatchList.fromIONames

(***************************************************************************)
(* Program constants.                                                      *)
(***************************************************************************)
terminate_timeout_sec == 10
SecondsPerDay         == 86400

Sessions   == {"s1", "s2"}
WatchIds   == {"w1", "w2"}
Handlers   == {"h1", "h2"}
Categories == {"inputs", "outputs", "globalNames"}
Kinds      == {"success", "failed", "error"}
None       == "None"
listCallback == "listCallback"  \* the closure a bulk getter registers
NoId       == "noid"     \* a wire message that carries no id field
ListId     == "list"     \* the id of the WatchList of a list result
TickSteps  == {1, terminate_timeout_sec, SecondsPerDay}

VARIABLES
    phase,          \* per session: "absent", "spawning", "connected", "failed",
                    \* "cleaned"
    procRef,        \* per session: self._process is not None
    procState,      \* per session: the child process, "none", "running", "exited", "killed"
    registered,     \* Workspace._registered_workspaces
    terminating,    \* Workspace._terminating_processes, a list of (time, workspace)
    now,            \* datetime.datetime.now(), in seconds
    watches,        \* per session: self._watches, id -> _WatchCallback
    listRequests,   \* per session: self._listRequests, category -> callback
    onFunc,         \* per session: the callables given to onSuccess, onFailed,
                    \* onError
    wrappers,       \* per session and kind: the complete flags of the WrapperFunc
                    \* objects runOnceAndWait has put around the callable,
                    \* innermost first
    notified,       \* history, per session and kind: notifications delivered
                    \* and user callables invoked for them
    inflight,       \* list requests the engines have not yet answered
    pending,        \* events the channel has not yet delivered
    stack,          \* the Python call stack
    fired,          \* history: invocations of the current registration of a watch
    latest,         \* history: what the last watch call for an id asked for,
                    \* kept when that call replaced a registration
    kills,          \* history: kill() calls per session
    hooked,         \* per session: the dispatchers registered with the channel
    connects,       \* history: runs of the connected callback per session
    last,           \* history: outcome of the last completed call or callback
    nEvents,        \* history: events emitted so far
    nQueries,       \* history: list queries issued so far
    nTicks,         \* history: clock advances so far
    ioNames,        \* the name lists given to WatchList.fromIONames, by category
    built,          \* the WatchList that fromIONames returned
    jsonStr,        \* a JSON text: str() of a WatchList, or a wire message
    kept,           \* the members the JSON text carries
    parsed,         \* what WatchList.fromJson returned for the text
    loop,           \* the event loop of the channel: "stopped" or "running"
    event_loop_running, \* Workspace._event_loop_running
    exited,         \* the interpreter has exited: Workspace._atexit has run
    stage           \* how far the WatchList has come: "idle", "args", "built",
                    \* "str", "wire", "roundtrip", "received"

vars == <<phase, procRef, procState, registered, terminating, now, watches,
          listRequests, onFunc, inflight, pending, stack, fired, latest, kills, last,
          nEvents, nQueries, nTicks, hooked, connects, wrappers, notified,
          ioNames, built, jsonStr, kept, parsed, stage, loop,
          event_loop_running, exited>>

connVars   == <<hooked, connects>>
lifeVars   == <<phase, procRef, procState, registered, terminating, kills,
                connVars>>
timeVars   == <<now, nTicks>>
watchVars  == <<watches, fired, latest>>
listVars   == <<listRequests, inflight, nQueries>>
notifyVars == <<onFunc, wrappers, notified>>
jsonVars   == <<ioNames, built, jsonStr, kept, parsed, stage>>
exitVars   == <<loop, event_loop_running, exited>>

(***************************************************************************)
(* Values.                                                                 *)
(***************************************************************************)
NoWatch == [h |-> None, ad |-> FALSE]
NoReq   == [h |-> None, req |-> 0]
\* over: the watch call found the id registered and replaced the registration
NoLatest == [h |-> None, ad |-> FALSE, over |-> FALSE]
WaitKinds == {"success", "failed"}
NoCount == [n |-> 0, inv |-> 0]
NoSnap  == [k \in WaitKinds |-> NoCount]
\* tag, req: for a list handler, the query whose result it is handed and the
\* query that stored it; for a notification handler, req is the number of
\* WrapperFunc objects the call goes through.  snap: for a waiting
\* runOnceAndWait, the value of notified when it began.
NoFrame == [kind |-> "main", cb |-> None, ws |-> None, key |-> None,
            ad |-> FALSE, h |-> None, tag |-> 0, req |-> 0, snap |-> NoSnap]
PollFrame == [NoFrame EXCEPT !.kind = "poll"]
\* Workspace.__init__ waiting in server_listen_for_connection_and_wait
InitFrame(s, h) == [NoFrame EXCEPT !.kind = "init", !.ws = s, !.h = h]
HandlerFrame(cb, s, key, ad, h, tag, req) ==
    [kind |-> "handler", cb |-> cb, ws |-> s, key |-> key, ad |-> ad, h |-> h,
     tag |-> tag, req |-> req, snap |-> NoSnap]
\* a blocking call (runOnceAndWait, getInputs, getOutputs, getGlobalNames) in
\* its polling loop; for a getter key is the category, req its query and tag
\* the variable its closure assigns: 0 for None, else the query whose result
\* it was handed
WaitFrame(cb, s, key, req, snap) ==
    [NoFrame EXCEPT !.kind = "wait", !.cb = cb, !.ws = s, !.key = key,
                    !.req = req, !.snap = snap]
\* seq: the place of the event in the order the channel reports events; id:
\* the id member of the message a list result carries (for a watch event the
\* id is key)
Event(kind, s, key, tag) ==
    [kind |-> kind, ws |-> s, key |-> key, tag |-> tag, seq |-> 0,
     id |-> IF kind = "list" THEN ListId ELSE None]
\* raised: whether the user callable this outcome belongs to raised; tag: for
\* a bulk getter, the query whose result it returns a mapping of
Outcome(op, s, key, err, ack) ==
    [op |-> op, ws |-> s, key |-> key, err |-> err, ack |-> ack,
     raised |-> FALSE, tag |-> 0]
NoOutcome == Outcome("none", None, None, "none", None)

Top == IF stack = <<>> THEN NoFrame ELSE stack[Len(stack)]
Pop(st) == SubSeq(st, 1, Len(st) - 1)
\* user code runs in the main program, in a handler and in the callable the
\* event loop was started with, until the interpreter exits
InUserCode == ~exited /\ Top.kind \in {"main", "handler", "loop"}
InPoll == Top.kind = "poll"

(***************************************************************************)
(* WatchList.fromJson, as far as dispatch reads it: a message without an   *)
(* id field gives None, any other message a WatchList with that id.        *)
(***************************************************************************)
FromJson(key) == IF key = NoId THEN None ELSE key

(***************************************************************************)
(* The watch registry self._watches.                                       *)
(***************************************************************************)
HasWatch(w, id) == id \in WatchIds /\ w[id] # NoWatch

\* Workspace._removeWatch: del self._watches[watchId]
RemoveWatch(w, id) ==
    IF HasWatch(w, id)
    THEN [err |-> "none", w |-> [w EXCEPT ![id] = NoWatch]]
    ELSE [err |-> "KeyError", w |-> w]

\* _WatchCallback.__call__ from the return of the user callable on:
\* the callable raised, or returned a value and autodelete is applied.
WatchCallbackCall(w, f, outcome) ==
    IF outcome = "raise"
    THEN [err |-> "handler", ack |-> None, w |-> w]
    ELSE IF f.ad
         THEN LET r == RemoveWatch(w, f.key)
              IN  [err |-> r.err,
                   ack |-> IF r.err = "none" THEN outcome ELSE None,
                   w   |-> r.w]
         ELSE [err |-> "none", ack |-> outcome, w |-> w]

\* (mutant) the callback looks the handler up without testing the id
WatchKnownUnchecked(w, wl) == wl # None

\* The test of Workspace._create_WatchCallback.callback
WatchKnown(w, wl) == wl # None /\ HasWatch(w, wl)

(***************************************************************************)
(* The sweep of Workspace.poll over _terminating_processes.                *)
(***************************************************************************)
\* timedelta.seconds: the seconds of the difference, its whole days dropped
Seconds(d) == d % SecondsPerDay

\* list.remove(x): the first element equal to x goes
RECURSIVE ListRemove(_, _)
ListRemove(q, x) ==
    IF q = <<>> THEN q
    ELSE IF Head(q) = x THEN Tail(q)
    ELSE <<Head(q)>> \o ListRemove(Tail(q), x)

\* Workspace._cleanup on the sweep's state
\* (mutant) _cleanup without its last line, the removal from the registry
CleanupKeepsRegistry(st, ws) ==
    [st EXCEPT !.procRef[ws] = FALSE, !.phase[ws] = "cleaned"]

Cleanup(st, ws) ==
    IF ws \in st.registered
    THEN [st EXCEPT !.procRef[ws] = FALSE, !.phase[ws] = "cleaned",
                    !.registered = @ \ {ws}]
    ELSE [st EXCEPT !.procRef[ws] = FALSE, !.phase[ws] = "cleaned",
                    !.err = "KeyError"]

\* Whether the sweep kills a process that is still running
TimedOut(t) == Seconds(now - t) > terminate_timeout_sec

\* The body of the for loop, for the entry at (1-based) index i
SweepEntry(st, i) ==
    LET procRec == st.q[i]
        ws == procRec.ws
    IN  IF ~st.procRef[ws]
        THEN [st EXCEPT !.err = "AttributeError"]
        ELSE IF st.procState[ws] = "running"
        THEN IF TimedOut(procRec.t)
             THEN LET killed  == [st EXCEPT !.procState[ws] = "killed",
                                            !.kills[ws] = @ + 1]
                      cleaned == Cleanup(killed, ws)
                  IN  IF cleaned.err # "none" THEN cleaned
                      ELSE [cleaned EXCEPT !.q = ListRemove(@, procRec)]
             ELSE st
        ELSE Cleanup([st EXCEPT !.q = ListRemove(@, procRec)], ws)

\* The for loop: Python's list iterator keeps an index into the list it
\* walks, and the body removes from that list.
RECURSIVE SweepFrom(_, _)
SweepFrom(st, i) ==
    IF i > Len(st.q) \/ st.err # "none" THEN st
    ELSE SweepFrom(SweepEntry(st, i), i + 1)

Sweep ==
    SweepFrom([q |-> terminating, procRef |-> procRef, procState |-> procState,
               phase |-> phase, registered |-> registered, kills |-> kills,
               err |-> "none"], 1)

(***************************************************************************)
(* The list-query slots self._listRequests.  A slot holds the callback and, *)
(* as history, the number of the query that stored it.                     *)
(***************************************************************************)
HasListRequest(lr, cat) == lr[cat] # NoReq

\* del self._listRequests[ioType]
RemoveListRequest(lr, cat) ==
    IF HasListRequest(lr, cat)
    THEN [err |-> "none", lr |-> [lr EXCEPT ![cat] = NoReq]]
    ELSE [err |-> "KeyError", lr |-> lr]

\* Workspace._createListCallback.callback from the return of the user
\* callable on.
ListCallbackReturn(lr, f, outcome) ==
    IF outcome = "raise"
    THEN [err |-> "handler", ack |-> None, lr |-> lr]
    ELSE LET r == RemoveListRequest(lr, f.key)
         IN  [err |-> r.err,
              ack |-> IF r.err = "none" THEN outcome ELSE None,
              lr  |-> r.lr]

(***************************************************************************)
(* The success, failed and error dispatchers: try: return f(self)          *)
(* except: return True.                                                    *)
(***************************************************************************)
\* the dispatcher without its try/except
NotifyCallbackReturnUncaught(outcome) ==
    IF outcome = "raise"
    THEN [err |-> "handler", ack |-> None]
    ELSE [err |-> "none", ack |-> outcome]

NotifyCallbackReturn(outcome) ==
    IF outcome = "raise"
    THEN [err |-> "none", ack |-> "true"]
    ELSE [err |-> "none", ack |-> outcome]

\* WrapperFunc.__call__ from the return of self.func on, for the n
\* WrapperFunc objects a call went through: each sets its complete flag
\* unless the callable raised.  Objects that onSuccess or onFailed has since
\* replaced are no longer the attribute, and their flags are not in fl.
WrapperFuncReturn(fl, n, outcome) ==
    IF outcome = "raise" THEN fl
    ELSE [i \in DOMAIN fl |-> IF i <= n THEN TRUE ELSE fl[i]]

\* Workspace._createConnectedCallback.callback from the return of
\* onConnected on: return onConnected(self), with nothing around it
ConnectedCallbackReturn(outcome) ==
    IF outcome = "raise"
    THEN [err |-> "handler", ack |-> None]
    ELSE [err |-> "none", ack |-> outcome]

(***************************************************************************)
(* User code: the public methods.                                          *)
(***************************************************************************)
\* (mutant) the handler is registered only once the channel has accepted
WatchRegistersOnAccept(s, h, wl, ad, ok) ==
    /\ InUserCode
    /\ phase[s] = "connected"
    /\ watches' = IF ok THEN [watches EXCEPT ![s][wl] = [h |-> h, ad |-> ad]]
                   ELSE watches
    /\ fired' = [fired EXCEPT ![s][wl] = 0]
    /\ latest' = latest
    /\ last' = Outcome("watch", s, wl, "none", IF ok THEN wl ELSE None)
    /\ UNCHANGED <<lifeVars, timeVars, listVars, notifyVars, pending, stack, nEvents>>
    /\ UNCHANGED <<jsonVars, exitVars>>

\* Workspace.watch; ok is the answer of workspace_watch
Watch(s, h, wl, ad, ok) ==
    /\ InUserCode
    /\ phase[s] = "connected"
    /\ watches' = [watches EXCEPT ![s][wl] = [h |-> h, ad |-> ad]]
    /\ fired' = [fired EXCEPT ![s][wl] = 0]
    /\ latest' = [latest EXCEPT ![s][wl] =
                      IF HasWatch(watches[s], wl)
                      THEN [h |-> h, ad |-> ad, over |-> TRUE]
                      ELSE NoLatest]
    /\ last' = Outcome("watch", s, wl, "none", IF ok THEN wl ELSE None)
    /\ UNCHANGED <<lifeVars, timeVars, listVars, notifyVars, pending, stack, nEvents>>
    /\ UNCHANGED <<jsonVars, exitVars>>

\* (mutant) cancelWatch on a registry of watches that the sessions share
CancelWatchShared(s, id) ==
    /\ InUserCode
    /\ phase[s] = "connected"
    /\ LET r == RemoveWatch(watches[s], id)
       IN  /\ watches' = [t \in Sessions |-> RemoveWatch(watches[t], id).w]
           /\ fired' = [fired EXCEPT ![s][id] = 0]
           /\ latest' = [latest EXCEPT ![s][id] = NoLatest]
           /\ last' = Outcome("cancelWatch", s, id, r.err,
                              IF r.err = "none" THEN "sent" ELSE None)
    /\ UNCHANGED <<lifeVars, timeVars, listVars, notifyVars, pending, stack, nEvents>>
    /\ UNCHANGED <<jsonVars, exitVars>>

\* Workspace.cancelWatch
CancelWatch(s, id) ==
    /\ InUserCode
    /\ phase[s] = "connected"
    /\ LET r == RemoveWatch(watches[s], id)
       IN  /\ watches' = [watches EXCEPT ![s] = r.w]
           /\ fired' = [fired EXCEPT ![s][id] = 0]
           /\ latest' = [latest EXCEPT ![s][id] = NoLatest]
           /\ last' = Outcome("cancelWatch", s, id, r.err,
                              IF r.err = "none" THEN "sent" ELSE None)
    /\ UNCHANGED <<lifeVars, timeVars, listVars, notifyVars, pending, stack, nEvents>>
    /\ UNCHANGED <<jsonVars, exitVars>>

\* Workspace.listInputs, listOutputs, listGlobalNames
ListQuery(s, cat, h) ==
    /\ InUserCode
    /\ phase[s] = "connected"
    /\ nQueries < MaxQueries
    /\ nQueries' = nQueries + 1
    /\ listRequests' = [listRequests EXCEPT ![s][cat] = [h |-> h, req |-> nQueries + 1]]
    /\ inflight' = Append(inflight, Event("list", s, cat, nQueries + 1))
    /\ last' = Outcome("listQuery", s, cat, "none", "sent")
    /\ UNCHANGED <<lifeVars, timeVars, watchVars, notifyVars, pending, stack, nEvents>>
    /\ UNCHANGED <<jsonVars, exitVars>>

\* Workspace.onSuccess, onFailed, onError.  The attribute is overwritten, so
\* the WrapperFunc objects around the old callable are the attribute no
\* longer, and a call in progress goes through none that still is.
OnSet(s, k, h) ==
    /\ InUserCode
    /\ phase[s] = "connected"
    /\ onFunc' = [onFunc EXCEPT ![s][k] = h]
    /\ wrappers' = [wrappers EXCEPT ![s][k] = <<>>]
    /\ stack' = [i \in DOMAIN stack |->
                    IF stack[i].kind = "handler" /\ stack[i].cb = k
                       /\ stack[i].ws = s
                    THEN [stack[i] EXCEPT !.req = 0]
                    ELSE stack[i]]
    /\ last' = Outcome("on", s, k, "none", None)
    /\ UNCHANGED <<lifeVars, timeVars, watchVars, listVars, notified, pending,
                   nEvents>>
    /\ UNCHANGED <<jsonVars, exitVars>>

\* self._onSuccessFunc.complete and self._onFailedFunc.complete as the loop
\* of runOnceAndWait reads them: "AttributeError" when the attribute is not
\* a WrapperFunc any more
Complete(fl) == IF fl = <<>> THEN "AttributeError"
                ELSE IF fl[Len(fl)] THEN "true" ELSE "false"

\* while (not self._onSuccessFunc.complete and not self._onFailedFunc.complete)
WaitCondition(w) ==
    IF Complete(w["success"]) # "false" THEN Complete(w["success"])
    ELSE Complete(w["failed"])

\* (mutant) runOnceAndWait putting WrapperFunc(None) in place of the callables
RunOnceAndWaitDropsFunc(s) ==
    /\ InUserCode
    /\ phase[s] = "connected"
    /\ Len(wrappers[s]["success"]) < MaxWaits
    /\ Len(wrappers[s]["failed"]) < MaxWaits
    /\ wrappers' = [wrappers EXCEPT ![s] =
                        [k \in Kinds |-> IF k \in WaitKinds
                                         THEN Append(wrappers[s][k], FALSE)
                                         ELSE wrappers[s][k]]]
    /\ onFunc' = [onFunc EXCEPT ![s] =
                        [k \in Kinds |-> IF k \in WaitKinds THEN None
                                         ELSE onFunc[s][k]]]
    /\ stack' = Append(stack, WaitFrame("runOnceAndWait", s, None, 0,
                                        notified[s]))
    /\ UNCHANGED <<lifeVars, timeVars, watchVars, listVars, notified,
                   pending, last, nEvents>>
    /\ UNCHANGED <<jsonVars, exitVars>>

\* Workspace.runOnceAndWait up to its loop: both callables are wrapped and
\* run-once is requested
RunOnceAndWait(s) ==
    /\ InUserCode
    /\ phase[s] = "connected"
    /\ Len(wrappers[s]["success"]) < MaxWaits
    /\ Len(wrappers[s]["failed"]) < MaxWaits
    /\ wrappers' = [wrappers EXCEPT ![s] =
                        [k \in Kinds |-> IF k \in WaitKinds
                                         THEN Append(wrappers[s][k], FALSE)
                                         ELSE wrappers[s][k]]]
    /\ stack' = Append(stack, WaitFrame("runOnceAndWait", s, None, 0,
                                        notified[s]))
    /\ UNCHANGED <<lifeVars, timeVars, watchVars, listVars, onFunc, notified,
                   pending, last, nEvents>>
    /\ UNCHANGED <<jsonVars, exitVars>>

\* the loop of runOnceAndWait calls self.poll()
WaitPoll ==
    /\ Top.kind = "wait"
    /\ Top.cb = "runOnceAndWait"
    /\ WaitCondition(wrappers[Top.ws]) = "false"
    /\ Cardinality({i \in DOMAIN stack : stack[i].kind = "poll"}) < MaxNesting
    /\ stack' = Append(stack, PollFrame)
    /\ UNCHANGED <<lifeVars, timeVars, watchVars, listVars, notifyVars, pending,
                   last, nEvents>>
    /\ UNCHANGED <<jsonVars, exitVars>>

\* the loop of runOnceAndWait ends: return self._onSuccessFunc.complete
WaitReturn ==
    /\ Top.kind = "wait"
    /\ Top.cb = "runOnceAndWait"
    /\ WaitCondition(wrappers[Top.ws]) # "false"
    /\ stack' = Pop(stack)
    /\ last' = IF "AttributeError" \in {WaitCondition(wrappers[Top.ws]),
                                         Complete(wrappers[Top.ws]["success"])}
               THEN Outcome("runOnceAndWait", Top.ws, None, "AttributeError", None)
               ELSE Outcome("runOnceAndWait", Top.ws, None, "none",
                            Complete(wrappers[Top.ws]["success"]))
    /\ UNCHANGED <<lifeVars, timeVars, watchVars, listVars, notifyVars, pending,
                   nEvents>>
    /\ UNCHANGED <<jsonVars, exitVars>>

\* Workspace.getInputs, getOutputs, getGlobalNames up to the loop: the
\* closure is registered with a list query of the category
GetQuery(s, cat) ==
    /\ InUserCode
    /\ phase[s] = "connected"
    /\ nQueries < MaxQueries
    /\ Cardinality({i \in DOMAIN stack : stack[i].kind = "poll"}) < MaxNesting
    /\ nQueries' = nQueries + 1
    /\ listRequests' = [listRequests EXCEPT ![s][cat] =
                            [h |-> listCallback, req |-> nQueries + 1]]
    /\ inflight' = Append(inflight, Event("list", s, cat, nQueries + 1))
    /\ stack' = Append(stack, WaitFrame("get", s, cat, nQueries + 1, NoSnap))
    /\ UNCHANGED <<lifeVars, timeVars, watchVars, notifyVars, pending, last,
                   nEvents>>
    /\ UNCHANGED <<jsonVars, exitVars>>

\* while outputData is None: self.poll()
GetPoll ==
    /\ Top.kind = "wait"
    /\ Top.cb = "get"
    /\ Top.tag = 0
    /\ stack' = Append(stack, PollFrame)
    /\ UNCHANGED <<lifeVars, timeVars, watchVars, listVars, notifyVars, pending,
                   last, nEvents>>
    /\ UNCHANGED <<jsonVars, exitVars>>

\* return outputData.outputs: the mapping of the getter's category in the
\* WatchList its closure was handed
GetReturn ==
    /\ Top.kind = "wait"
    /\ Top.cb = "get"
    /\ Top.tag # 0
    /\ stack' = Pop(stack)
    /\ last' = [Outcome("get", Top.ws, Top.key, "none", "mapping")
                  EXCEPT !.tag = Top.tag]
    /\ UNCHANGED <<lifeVars, timeVars, watchVars, listVars, notifyVars, pending,
                   nEvents>>
    /\ UNCHANGED <<jsonVars, exitVars>>

\* Workspace.__init__ up to the call of server_listen_for_connection_and_wait;
\* h is the onConnected argument, a callable or None
Construct(s, h) ==
    /\ InUserCode
    /\ phase[s] = "absent"
    /\ phase' = [phase EXCEPT ![s] = "spawning"]
    /\ procState' = [procState EXCEPT ![s] = "running"]
    /\ procRef' = [procRef EXCEPT ![s] = TRUE]
    /\ stack' = Append(stack, InitFrame(s, h))
    /\ UNCHANGED <<registered, terminating, kills, connVars, timeVars, watchVars,
                   listVars, notifyVars, pending, last, nEvents>>
    /\ UNCHANGED <<jsonVars, exitVars>>

\* Workspace._createConnectedCallback.callback: the engine has connected.
\* The callback runs up to the call of onConnected; calling None raises
\* TypeError inside the callback.
ConnectedCallback ==
    /\ Top.kind = "init"
    /\ phase[Top.ws] = "spawning"
    /\ phase' = [phase EXCEPT ![Top.ws] = "connected"]
    /\ registered' = registered \cup {Top.ws}
    /\ hooked' = [hooked EXCEPT ![Top.ws] = Kinds]
    /\ connects' = [connects EXCEPT ![Top.ws] = @ + 1]
    /\ IF Top.h # None
       THEN /\ stack' = Append(stack, HandlerFrame("connected", Top.ws, None,
                                                   FALSE, Top.h, 0, 0))
            /\ last' = last
       ELSE /\ stack' = stack
            /\ last' = Outcome("connected", Top.ws, None, "TypeError", None)
    /\ UNCHANGED <<procRef, procState, terminating, kills, timeVars, watchVars,
                   listVars, notifyVars, pending, nEvents>>
    /\ UNCHANGED <<jsonVars, exitVars>>

\* (mutant) a failed wait that leaves the session in the registry
ListenReturnRegisters ==
    /\ Top.kind = "init"
    /\ stack' = Pop(stack)
    /\ IF phase[Top.ws] = "spawning"
       THEN /\ phase' = [phase EXCEPT ![Top.ws] = "failed"]
            /\ registered' = registered \cup {Top.ws}
            /\ last' = Outcome("construct", Top.ws, None, "RuntimeError", None)
       ELSE /\ phase' = phase
            /\ registered' = registered
            /\ last' = Outcome("construct", Top.ws, None, "none", None)
    /\ UNCHANGED <<procRef, procState, terminating, kills, connVars,
                   timeVars, watchVars, listVars, notifyVars, pending, nEvents>>
    /\ UNCHANGED <<jsonVars, exitVars>>

\* server_listen_for_connection_and_wait returns, with success when the
\* engine has connected and with failure when the wait has failed, and
\* Workspace.__init__ runs to its end.
ListenReturn ==
    /\ Top.kind = "init"
    /\ stack' = Pop(stack)
    /\ IF phase[Top.ws] = "spawning"
       THEN /\ phase' = [phase EXCEPT ![Top.ws] = "failed"]
            /\ last' = Outcome("construct", Top.ws, None, "RuntimeError", None)
       ELSE /\ phase' = phase
            /\ last' = Outcome("construct", Top.ws, None, "none", None)
    /\ UNCHANGED <<procRef, procState, registered, terminating, kills, connVars,
                   timeVars, watchVars, listVars, notifyVars, pending, nEvents>>
    /\ UNCHANGED <<jsonVars, exitVars>>

\* (mutant) terminate without the test of self._process
TerminateUnguarded(s) ==
    /\ InUserCode
    /\ phase[s] \in {"connected", "cleaned", "failed"}
    /\ IF phase[s] = "failed"
       THEN /\ terminating' = terminating
            /\ last' = Outcome("terminate", s, None, "AttributeError", None)
       ELSE /\ Len(terminating) < MaxQueue
            /\ terminating' = Append(terminating, [t |-> now, ws |-> s])
            /\ last' = Outcome("terminate", s, None, "none", "sent")
    /\ UNCHANGED <<phase, procRef, procState, registered, kills, connVars,
                   timeVars, watchVars, listVars, notifyVars, pending, stack, nEvents>>
    /\ UNCHANGED <<jsonVars, exitVars>>

\* Workspace.terminate.  A session whose connect failed has no self._id, and
\* byref(self._id) raises AttributeError before anything is queued.
Terminate(s) ==
    /\ InUserCode
    /\ phase[s] \in {"connected", "cleaned", "failed"}
    /\ IF ~procRef[s]
       THEN /\ terminating' = terminating
            /\ last' = Outcome("terminate", s, None, "none", None)
       ELSE IF phase[s] = "failed"
       THEN /\ terminating' = terminating
            /\ last' = Outcome("terminate", s, None, "AttributeError", None)
       ELSE /\ Len(terminating) < MaxQueue
            /\ terminating' = Append(terminating, [t |-> now, ws |-> s])
            /\ last' = Outcome("terminate", s, None, "none", "sent")
    /\ UNCHANGED <<phase, procRef, procState, registered, kills, connVars,
                   timeVars, watchVars, listVars, notifyVars, pending, stack, nEvents>>
    /\ UNCHANGED <<jsonVars, exitVars>>

\* Workspace.startEventLoop up to the return of server_start_event_loop,
\* which runs the loop, and in it the callable given, until the loop is stopped
LoopFrame == [NoFrame EXCEPT !.kind = "loop"]
StartEventLoop ==
    /\ InUserCode
    /\ loop = "stopped"
    /\ \A i \in DOMAIN stack : stack[i].kind \notin {"loop", "poll"}
    /\ loop' = "running"
    /\ stack' = Append(stack, LoopFrame)
    /\ UNCHANGED <<lifeVars, timeVars, watchVars, listVars, notifyVars, pending,
                   last, nEvents, jsonVars, event_loop_running, exited>>

\* Workspace.stopEventLoop
StopEventLoop ==
    /\ InUserCode
    /\ loop' = "stopped"
    /\ last' = Outcome("stopEventLoop", None, None, "none", None)
    /\ UNCHANGED <<lifeVars, timeVars, watchVars, listVars, notifyVars, pending,
                   stack, nEvents, jsonVars, event_loop_running, exited>>

\* server_start_event_loop returns, the loop having been stopped, and
\* startEventLoop sets Workspace._event_loop_running = True
EventLoopReturn ==
    /\ Top.kind = "loop"
    /\ loop = "stopped"
    /\ stack' = Pop(stack)
    /\ event_loop_running' = TRUE
    /\ last' = Outcome("startEventLoop", None, None, "none", None)
    /\ UNCHANGED <<lifeVars, timeVars, watchVars, listVars, notifyVars, pending,
                   nEvents, jsonVars, loop, exited>>

\* the orders in which a dict that holds the sessions S may list them
Orders(S) ==
    {o \in [1..Cardinality(S) -> S] : \A i, j \in DOMAIN o : o[i] = o[j] => i = j}

\* Workspace._atexit, run by the interpreter when the main program has
\* ended: the event loop is stopped if the flag is set, and terminate is
\* called on every session of the registry
Atexit ==
    /\ ~exited
    /\ stack = <<>>
    /\ Len(terminating) + Cardinality(registered) <= MaxQueue
    /\ exited' = TRUE
    /\ loop' = IF event_loop_running THEN "stopped" ELSE loop
    /\ \E o \in Orders({s \in registered : procRef[s]}) :
          terminating' = terminating \o [i \in DOMAIN o |-> [t |-> now, ws |-> o[i]]]
    /\ last' = Outcome("atexit", None, None, "none", None)
    /\ UNCHANGED <<phase, procRef, procState, registered, kills, connVars,
                   timeVars, watchVars, listVars, notifyVars, pending, stack,
                   nEvents, jsonVars, event_loop_running>>

\* Workspace.poll, entered: server_poll starts to deliver
PollBegin ==
    /\ InUserCode
    /\ Cardinality({i \in DOMAIN stack : stack[i].kind = "poll"}) < MaxNesting
    /\ stack' = Append(stack, PollFrame)
    /\ UNCHANGED <<lifeVars, timeVars, watchVars, listVars, notifyVars, pending,
                   last, nEvents>>
    /\ UNCHANGED <<jsonVars, exitVars>>

(***************************************************************************)
(* server_poll delivers the pending events one by one to the ctypes        *)
(* callbacks of the session each belongs to.                               *)
(***************************************************************************)
\* Workspace._create_WatchCallback.callback, up to the call of the user callable
DispatchWatch(e) ==
    LET wl == FromJson(e.key)
    IN  IF WatchKnown(watches[e.ws], wl)
        THEN /\ stack' = Append(stack, HandlerFrame("watch", e.ws, wl,
                                  watches[e.ws][wl].ad, watches[e.ws][wl].h, 0, 0))
             /\ fired' = [fired EXCEPT ![e.ws][wl] = @ + 1]
             /\ latest' = IF watches[e.ws][wl].ad
                           THEN [latest EXCEPT ![e.ws][wl] = NoLatest]
                           ELSE latest
             /\ UNCHANGED <<watches, listRequests, last>>
        ELSE /\ last' = Outcome("watchEvent", e.ws, e.key, "none", None)
             /\ UNCHANGED <<watches, fired, latest, listRequests, stack>>

\* ioList = WatchList.fromJson(ioListStr), as the tag of the handler's frame:
\* the query whose result the WatchList is, 0 when fromJson gave None
ListArgument(e) == IF FromJson(e.id) = None THEN 0 ELSE e.tag

\* the closure listCallback of a bulk getter called with the result f.tag:
\* nonlocal outputData; outputData = outputs; return True.  The variable is
\* the one of the getter call that stored the closure.
GetterCallback(st, f) ==
    [i \in DOMAIN st |->
        IF st[i].kind = "wait" /\ st[i].cb = "get" /\ st[i].req = f.req
        THEN [st[i] EXCEPT !.tag = f.tag]
        ELSE st[i]]

\* Workspace._createListCallback.callback, up to the call of the user
\* callable.  The closure of a bulk getter runs no user code, so the callback
\* runs to its end at once.
DispatchList(e) ==
    IF ~HasListRequest(listRequests[e.ws], e.key)
    THEN /\ last' = Outcome("listEvent", e.ws, e.key, "KeyError", None)
         /\ UNCHANGED <<watches, fired, latest, listRequests, stack>>
    ELSE IF listRequests[e.ws][e.key].h = listCallback
    THEN LET f == HandlerFrame("list", e.ws, e.key, FALSE, listCallback,
                               ListArgument(e), listRequests[e.ws][e.key].req)
             r == ListCallbackReturn(listRequests[e.ws], f, "true")
         IN  /\ stack' = GetterCallback(stack, f)
             /\ listRequests' = [listRequests EXCEPT ![e.ws] = r.lr]
             /\ last' = Outcome("listEvent", e.ws, e.key, r.err, r.ack)
             /\ UNCHANGED <<watches, fired, latest>>
    ELSE /\ stack' = Append(stack, HandlerFrame("list", e.ws, e.key, FALSE,
                              listRequests[e.ws][e.key].h, ListArgument(e),
                              listRequests[e.ws][e.key].req))
         /\ UNCHANGED <<watches, fired, latest, listRequests, last>>

\* (mutant) every notification calls the success callable
DispatchNotifySuccessOnly(e) ==
    LET f == onFunc[e.ws]["success"]
        n == Len(wrappers[e.ws][e.kind])
    IN  /\ notified' = IF e.kind \in WaitKinds
                       THEN [notified EXCEPT ![e.ws][e.kind] =
                                [n   |-> @.n + 1,
                                 inv |-> IF f # None THEN @.inv + 1 ELSE @.inv]]
                       ELSE notified
        /\ IF f # None
           THEN /\ stack' = Append(stack, HandlerFrame(e.kind, e.ws, None, FALSE,
                                                       f, 0, n))
                /\ UNCHANGED <<watches, fired, latest, listRequests, last, wrappers>>
           ELSE IF n > 0
           THEN /\ wrappers' = [wrappers EXCEPT ![e.ws][e.kind] =
                                    [i \in 1..n |-> TRUE]]
                /\ last' = Outcome(e.kind, e.ws, None, "none", "false")
                /\ UNCHANGED <<watches, fired, latest, listRequests, stack>>
           ELSE /\ last' = Outcome(e.kind, e.ws, None,
                                   NotifyCallbackReturn("raise").err,
                                   NotifyCallbackReturn("raise").ack)
                /\ UNCHANGED <<watches, fired, latest, listRequests, stack,
                               wrappers>>

\* The success, failed and error callbacks, up to the call of the user
\* callable.  The attribute holds the user callable inside the WrapperFunc
\* objects of runOnceAndWait, if any.  Calling None raises TypeError inside
\* the try; a WrapperFunc around None sets complete and returns False.
DispatchNotify(e) ==
    LET f == onFunc[e.ws][e.kind]
        n == Len(wrappers[e.ws][e.kind])
    IN  /\ notified' = IF e.kind \in WaitKinds
                       THEN [notified EXCEPT ![e.ws][e.kind] =
                                [n   |-> @.n + 1,
                                 inv |-> IF f # None THEN @.inv + 1 ELSE @.inv]]
                       ELSE notified
        /\ IF f # None
           THEN /\ stack' = Append(stack, HandlerFrame(e.kind, e.ws, None, FALSE,
                                                       f, 0, n))
                /\ UNCHANGED <<watches, fired, latest, listRequests, last, wrappers>>
           ELSE IF n > 0
           THEN /\ wrappers' = [wrappers EXCEPT ![e.ws][e.kind] =
                                    [i \in 1..n |-> TRUE]]
                /\ last' = Outcome(e.kind, e.ws, None, "none", "false")
                /\ UNCHANGED <<watches, fired, latest, listRequests, stack>>
           ELSE /\ last' = Outcome(e.kind, e.ws, None,
                                   NotifyCallbackReturn("raise").err,
                                   NotifyCallbackReturn("raise").ack)
                /\ UNCHANGED <<watches, fired, latest, listRequests, stack,
                               wrappers>>

\* (mutant) server_poll delivering the newest event first
PollDispatchNewestFirst ==
    /\ InPoll
    /\ pending # <<>>
    /\ pending' = SubSeq(pending, 1, Len(pending) - 1)
    /\ LET e == pending[Len(pending)]
       IN  IF e.kind = "watch"
           THEN DispatchWatch(e) /\ UNCHANGED <<wrappers, notified>>
           ELSE IF e.kind = "list"
           THEN DispatchList(e) /\ UNCHANGED <<wrappers, notified>>
           ELSE DispatchNotify(e)
    /\ UNCHANGED <<lifeVars, timeVars, onFunc, inflight, nQueries, nEvents>>
    /\ UNCHANGED <<jsonVars, exitVars>>

PollDispatch ==
    /\ InPoll
    /\ pending # <<>>
    /\ pending' = Tail(pending)
    /\ LET e == Head(pending)
       IN  IF e.kind = "watch"
           THEN DispatchWatch(e) /\ UNCHANGED <<wrappers, notified>>
           ELSE IF e.kind = "list"
           THEN DispatchList(e) /\ UNCHANGED <<wrappers, notified>>
           ELSE DispatchNotify(e)
    /\ UNCHANGED <<lifeVars, timeVars, onFunc, inflight, nQueries, nEvents>>
    /\ UNCHANGED <<jsonVars, exitVars>>

\* The event loop of server_start_event_loop delivers a pending event to the
\* ctypes callback of its session, as server_poll does; Workspace.poll, and
\* with it the sweep, is not part of the loop
LoopDispatch ==
    /\ Top.kind = "loop"
    /\ loop = "running"
    /\ pending # <<>>
    /\ pending' = Tail(pending)
    /\ LET e == Head(pending)
       IN  IF e.kind = "watch"
           THEN DispatchWatch(e) /\ UNCHANGED <<wrappers, notified>>
           ELSE IF e.kind = "list"
           THEN DispatchList(e) /\ UNCHANGED <<wrappers, notified>>
           ELSE DispatchNotify(e)
    /\ UNCHANGED <<lifeVars, timeVars, onFunc, inflight, nQueries, nEvents>>
    /\ UNCHANGED <<jsonVars, exitVars>>

\* The user callable returns (outcome "true" or "false") or raises, and the
\* callback that called it runs to its end.
HandlerReturn(outcome) ==
    /\ Top.kind = "handler"
    /\ stack' = Pop(stack)
    /\ LET f == Top
       IN  IF f.cb = "watch"
           THEN LET r == WatchCallbackCall(watches[f.ws], f, outcome)
                IN  /\ watches' = [watches EXCEPT ![f.ws] = r.w]
                    /\ fired' = IF r.w # watches[f.ws]
                                THEN [fired EXCEPT ![f.ws][f.key] = 0]
                                ELSE fired
                    /\ last' = Outcome("watchEvent", f.ws, f.key, r.err, r.ack)
                    /\ UNCHANGED <<listRequests, wrappers>>
           ELSE IF f.cb = "list"
           THEN LET r == ListCallbackReturn(listRequests[f.ws], f, outcome)
                IN  /\ listRequests' = [listRequests EXCEPT ![f.ws] = r.lr]
                    /\ last' = Outcome("listEvent", f.ws, f.key, r.err, r.ack)
                    /\ UNCHANGED <<watches, fired, wrappers>>
           ELSE IF f.cb = "connected"
           THEN LET r == ConnectedCallbackReturn(outcome)
                IN  /\ last' = Outcome("connected", f.ws, None, r.err, r.ack)
                    /\ UNCHANGED <<watches, fired, listRequests, wrappers>>
           ELSE LET r == NotifyCallbackReturn(outcome)
                IN  /\ last' = [Outcome(f.cb, f.ws, None, r.err, r.ack)
                                 EXCEPT !.raised = (outcome = "raise")]
                    /\ wrappers' = [wrappers EXCEPT ![f.ws][f.cb] =
                                        WrapperFuncReturn(@, f.req, outcome)]
                    /\ UNCHANGED <<watches, fired, listRequests>>
    /\ UNCHANGED <<lifeVars, timeVars, latest, onFunc, notified, pending, inflight,
                   nQueries, nEvents>>
    /\ UNCHANGED <<jsonVars, exitVars>>

\* (mutant) Workspace.poll sweeping the queue without waiting for server_poll
\* to have delivered
PollSweepUndrained ==
    /\ InPoll
    /\ stack' = Pop(stack)
    /\ LET r == Sweep
       IN  /\ terminating' = r.q
           /\ procRef' = r.procRef
           /\ procState' = r.procState
           /\ phase' = r.phase
           /\ registered' = r.registered
           /\ kills' = r.kills
           /\ last' = Outcome("poll", None, None, r.err, None)
    /\ UNCHANGED <<connVars, timeVars, watchVars, listVars, notifyVars, pending, nEvents>>
    /\ UNCHANGED <<jsonVars, exitVars>>

\* server_poll has delivered everything; Workspace.poll sweeps the queue of
\* terminating processes and returns.
PollSweep ==
    /\ InPoll
    /\ pending = <<>>
    /\ stack' = Pop(stack)
    /\ LET r == Sweep
       IN  /\ terminating' = r.q
           /\ procRef' = r.procRef
           /\ procState' = r.procState
           /\ phase' = r.phase
           /\ registered' = r.registered
           /\ kills' = r.kills
           /\ last' = Outcome("poll", None, None, r.err, None)
    /\ UNCHANGED <<connVars, timeVars, watchVars, listVars, notifyVars, pending, nEvents>>
    /\ UNCHANGED <<jsonVars, exitVars>>

(***************************************************************************)
(* The environment: the engines, the child processes and the clock.        *)
(***************************************************************************)
\* The channel numbers the events in the order it comes to hold them
NextSeq == nEvents + (nQueries - Len(inflight)) + 1
Report(e) == [e EXCEPT !.seq = NextSeq]

\* An engine reports a watch as up to date; key is the id of the message
EmitWatch(s, key) ==
    /\ phase[s] = "connected"
    /\ Len(pending) < MaxPending
    /\ nEvents < MaxEvents
    /\ nEvents' = nEvents + 1
    /\ pending' = Append(pending, Report(Event("watch", s, key, 0)))
    /\ UNCHANGED <<lifeVars, timeVars, watchVars, listVars, notifyVars, stack, last>>
    /\ UNCHANGED <<jsonVars, exitVars>>

\* An engine reports success, failure or an error
EmitNotify(s, k) ==
    /\ phase[s] = "connected"
    /\ Len(pending) < MaxPending
    /\ nEvents < MaxEvents
    /\ nEvents' = nEvents + 1
    /\ pending' = Append(pending, Report(Event(k, s, None, 0)))
    /\ UNCHANGED <<lifeVars, timeVars, watchVars, listVars, notifyVars, stack, last>>
    /\ UNCHANGED <<jsonVars, exitVars>>

\* An engine answers the oldest list request
EngineReply ==
    /\ inflight # <<>>
    /\ Len(pending) < MaxPending
    /\ pending' = Append(pending, Report(Head(inflight)))
    /\ inflight' = Tail(inflight)
    /\ UNCHANGED <<lifeVars, timeVars, watchVars, listRequests, nQueries, notifyVars,
                   stack, last, nEvents>>
    /\ UNCHANGED <<jsonVars, exitVars>>

\* An engine answers the oldest list request with a message that has no id
EngineReplyNoId ==
    /\ inflight # <<>>
    /\ Len(pending) < MaxPending
    /\ pending' = Append(pending, Report([Head(inflight) EXCEPT !.id = NoId]))
    /\ inflight' = Tail(inflight)
    /\ UNCHANGED <<lifeVars, timeVars, watchVars, listRequests, nQueries, notifyVars,
                   stack, last, nEvents>>
    /\ UNCHANGED <<jsonVars, exitVars>>

\* A child process exits, asked to or not
ProcExit(s) ==
    /\ procState[s] = "running"
    /\ procState' = [procState EXCEPT ![s] = "exited"]
    /\ UNCHANGED <<phase, procRef, registered, terminating, kills, connVars, timeVars,
                   watchVars, listVars, notifyVars, pending, stack, last, nEvents>>
    /\ UNCHANGED <<jsonVars, exitVars>>

\* Time passes
Tick(d) ==
    /\ nTicks < MaxTicks
    /\ nTicks' = nTicks + 1
    /\ now' = now + d
    /\ UNCHANGED <<lifeVars, watchVars, listVars, notifyVars, pending, stack, last,
                   nEvents>>
    /\ UNCHANGED <<jsonVars, exitVars>>

\* datetime.datetime.now() is the local wall clock: it is set back by d
\* seconds (daylight saving time ends, or the clock is corrected)
ClockSetBack(d) ==
    /\ nTicks < MaxTicks
    /\ nTicks' = nTicks + 1
    /\ now' = now - d
    /\ UNCHANGED <<lifeVars, watchVars, listVars, notifyVars, pending, stack, last,
                   nEvents>>
    /\ UNCHANGED <<jsonVars, exitVars>>

(***************************************************************************)
(* WatchList and its JSON form.  A text is a sequence of characters; a     *)
(* Python str is the sequence of its characters; a dict is the sequence of *)
(* its items in insertion order.                                           *)
(***************************************************************************)
Quote     == "\""
Backslash == "\\"
Space     == " "
Names     == {<<"a">>, <<Quote, Backslash>>}
Uuids     == {<<"u", "1">>, <<"u", "2">>}
NameLists == UNION {[1..n -> Names] : n \in 0..MaxNames}
Members   == {"id"} \cup Categories
KeyChars  == [id          |-> <<"i", "d">>,
              inputs      |-> <<"i", "n", "p", "u", "t", "s">>,
              outputs     |-> <<"o", "u", "t", "p", "u", "t", "s">>,
              globalNames |-> <<"g", "l", "o", "b", "a", "l", "N", "a", "m",
                                "e", "s">>]

\* the values json handles here: strings and dicts
JsonString(cs) == [t |-> "str", s |-> cs, m |-> <<>>]
EmptyDict      == [t |-> "dict", s |-> <<>>, m |-> <<>>]
JsonError      == [t |-> "error", s |-> <<>>, m |-> <<>>]

\* k in d.keys(), d[k], d[k] = v
HasKey(d, k)  == \E i \in DOMAIN d.m : d.m[i].k = k
GetItem(d, k) == d.m[CHOOSE i \in DOMAIN d.m : d.m[i].k = k].v
SetItem(d, k, v) ==
    IF HasKey(d, k)
    THEN [d EXCEPT !.m = [i \in DOMAIN d.m |->
                             IF d.m[i].k = k THEN [k |-> k, v |-> v] ELSE d.m[i]]]
    ELSE [d EXCEPT !.m = Append(d.m, [k |-> k, v |-> v])]
Keys(d) == {d.m[i].k : i \in DOMAIN d.m}

\* WatchList.__init__; fromJson returns None instead of a WatchList
WatchList(id, inputs, outputs, globalNames) ==
    [kind |-> "WatchList", id |-> id, inputs |-> inputs, outputs |-> outputs,
     globalNames |-> globalNames]
NoWatchList ==
    [kind |-> "None", id |-> <<>>, inputs |-> EmptyDict, outputs |-> EmptyDict,
     globalNames |-> EmptyDict]

\* inputsDict = {}; for name in inputs: inputsDict[name] = {}
RECURSIVE NamesDict(_)
NamesDict(names) ==
    IF names = <<>> THEN EmptyDict
    ELSE SetItem(NamesDict(SubSeq(names, 1, Len(names) - 1)),
                 names[Len(names)], EmptyDict)

\* WatchList.fromIONames; id is the value of str(uuid.uuid4())
fromIONames(id, inputs, outputs, globalNames) ==
    WatchList(id, NamesDict(inputs), NamesDict(outputs), NamesDict(globalNames))

\* WatchList.asDict
asDict(w) ==
    SetItem(SetItem(SetItem(SetItem(EmptyDict,
        KeyChars["id"], JsonString(w.id)),
        KeyChars["inputs"], w.inputs),
        KeyChars["outputs"], w.outputs),
        KeyChars["globalNames"], w.globalNames)

\* json.dumps: a string is written between quotes with its quotes and
\* backslashes escaped, a dict as {"key": value, "key": value}
RECURSIVE Escape(_)
Escape(cs) ==
    IF cs = <<>> THEN <<>>
    ELSE (IF Head(cs) \in {Quote, Backslash}
          THEN <<Backslash, Head(cs)>>
          ELSE <<Head(cs)>>) \o Escape(Tail(cs))
DumpsStringUnescaped(cs) == <<Quote>> \o cs \o <<Quote>>
DumpsString(cs) == <<Quote>> \o Escape(cs) \o <<Quote>>
RECURSIVE dumps(_), DumpsItems(_)
DumpsItems(m) ==
    IF m = <<>> THEN <<>>
    ELSE DumpsString(m[1].k) \o <<":", Space>> \o dumps(m[1].v)
         \o (IF Len(m) > 1 THEN <<",", Space>> \o DumpsItems(Tail(m)) ELSE <<>>)
dumps(v) ==
    IF v.t = "str" THEN DumpsString(v.s)
    ELSE <<"{">> \o DumpsItems(v.m) \o <<"}">>

\* json.loads: a result is the value read and the place after it
Failed(i) == [ok |-> FALSE, v |-> JsonError, i |-> i]
RECURSIVE SkipSpace(_, _)
SkipSpace(t, i) ==
    IF i <= Len(t) /\ t[i] = Space THEN SkipSpace(t, i + 1) ELSE i
\* the characters of a string from after its opening quote on
RECURSIVE ScanString(_, _, _)
ScanString(t, i, acc) ==
    IF i > Len(t) THEN Failed(i)
    ELSE IF t[i] = Quote THEN [ok |-> TRUE, v |-> JsonString(acc), i |-> i + 1]
    ELSE IF t[i] = Backslash
    THEN (IF i + 1 > Len(t) THEN Failed(i)
          ELSE ScanString(t, i + 2, Append(acc, t[i + 1])))
    ELSE ScanString(t, i + 1, Append(acc, t[i]))
RECURSIVE ParseValue(_, _), ParseItems(_, _, _)
ParseValue(t, i0) ==
    LET i == SkipSpace(t, i0)
    IN  IF i > Len(t) THEN Failed(i)
        ELSE IF t[i] = Quote THEN ScanString(t, i + 1, <<>>)
        ELSE IF t[i] = "{"
        THEN LET j == SkipSpace(t, i + 1)
             IN  IF j <= Len(t) /\ t[j] = "}"
                 THEN [ok |-> TRUE, v |-> EmptyDict, i |-> j + 1]
                 ELSE ParseItems(t, j, EmptyDict)
        ELSE Failed(i)
\* the items of a dict from a key on; a key read twice keeps the later value
ParseItems(t, i, d) ==
    IF i > Len(t) \/ t[i] # Quote THEN Failed(i)
    ELSE LET k == ScanString(t, i + 1, <<>>)
             c == SkipSpace(t, k.i)
         IN  IF ~k.ok \/ c > Len(t) \/ t[c] # ":" THEN Failed(c)
             ELSE LET v == ParseValue(t, c + 1)
                      e == SkipSpace(t, v.i)
                  IN  IF ~v.ok \/ e > Len(t) THEN Failed(e)
                      ELSE IF t[e] = ","
                      THEN ParseItems(t, SkipSpace(t, e + 1),
                                      SetItem(d, k.v.s, v.v))
                      ELSE IF t[e] = "}"
                      THEN [ok |-> TRUE, v |-> SetItem(d, k.v.s, v.v),
                            i |-> e + 1]
                      ELSE Failed(e)
loads(t) ==
    LET r == ParseValue(t, 1)
    IN  IF r.ok /\ SkipSpace(t, r.i) > Len(t) THEN r.v ELSE JsonError

\* WatchList.fromJson
fromJson(text) ==
    LET wl == loads(text)
        Member(c) == IF HasKey(wl, KeyChars[c]) THEN GetItem(wl, KeyChars[c])
                     ELSE EmptyDict
    IN  IF wl = JsonError THEN [NoWatchList EXCEPT !.kind = "ValueError"]
        ELSE IF ~HasKey(wl, KeyChars["id"]) THEN NoWatchList
        ELSE WatchList(GetItem(wl, KeyChars["id"]).s, Member("inputs"),
                       Member("outputs"), Member("globalNames"))

\* a wire message that carries the members F of the WatchList w
Message(w, F) ==
    LET d == asDict(w)
    IN  [d EXCEPT !.m = SelectSeq(d.m, LAMBDA e :
                            \E c \in F : e.k = KeyChars[c])]

\* WatchList.fromIONames is called with the lists drawn
FromIONamesCall(id) ==
    /\ stage = "args"
    /\ built' = fromIONames(id, ioNames["inputs"], ioNames["outputs"],
                            ioNames["globalNames"])
    /\ stage' = "built"
    /\ UNCHANGED <<ioNames, jsonStr, kept, parsed>>
    /\ UNCHANGED <<lifeVars, timeVars, watchVars, listVars, notifyVars, pending,
                   stack, last, nEvents, exitVars>>

\* str(wl)
StrCall ==
    /\ stage = "built"
    /\ jsonStr' = dumps(asDict(built))
    /\ kept' = Members
    /\ stage' = "str"
    /\ UNCHANGED <<ioNames, built, parsed>>
    /\ UNCHANGED <<lifeVars, timeVars, watchVars, listVars, notifyVars, pending,
                   stack, last, nEvents, exitVars>>

\* an engine sends a message of the WatchList with only the members F
WireMessage(F) ==
    /\ stage = "built"
    /\ jsonStr' = dumps(Message(built, F))
    /\ kept' = F
    /\ stage' = "wire"
    /\ UNCHANGED <<ioNames, built, parsed>>
    /\ UNCHANGED <<lifeVars, timeVars, watchVars, listVars, notifyVars, pending,
                   stack, last, nEvents, exitVars>>

\* WatchList.fromJson(jsonStr)
FromJsonCall ==
    /\ stage \in {"str", "wire"}
    /\ parsed' = fromJson(jsonStr)
    /\ stage' = IF stage = "str" THEN "roundtrip" ELSE "received"
    /\ UNCHANGED <<ioNames, built, jsonStr, kept>>
    /\ UNCHANGED <<lifeVars, timeVars, watchVars, listVars, notifyVars, pending,
                   stack, last, nEvents, exitVars>>

(***************************************************************************)
(* Specifications.                                                         *)
(***************************************************************************)
InitSessions(S) ==
    /\ phase = [s \in Sessions |-> IF s \in S THEN "connected" ELSE "absent"]
    /\ procRef = [s \in Sessions |-> s \in S]
    /\ procState = [s \in Sessions |-> IF s \in S THEN "running" ELSE "none"]
    /\ registered = S
    /\ terminating = <<>>
    /\ now = 0
    /\ watches = [s \in Sessions |-> [w \in WatchIds |-> NoWatch]]
    /\ listRequests = [s \in Sessions |-> [c \in Categories |-> NoReq]]
    /\ onFunc = [s \in Sessions |-> [k \in Kinds |-> None]]
    /\ wrappers = [s \in Sessions |-> [k \in Kinds |-> <<>>]]
    /\ notified = [s \in Sessions |-> NoSnap]
    /\ inflight = <<>>
    /\ pending = <<>>
    /\ stack = <<>>
    /\ fired = [s \in Sessions |-> [w \in WatchIds |-> 0]]
    /\ latest = [s \in Sessions |-> [w \in WatchIds |-> NoLatest]]
    /\ kills = [s \in Sessions |-> 0]
    /\ hooked = [s \in Sessions |-> IF s \in S THEN Kinds ELSE {}]
    /\ connects = [s \in Sessions |-> IF s \in S THEN 1 ELSE 0]
    /\ last = NoOutcome
    /\ nEvents = 0
    /\ nQueries = 0
    /\ nTicks = 0
    /\ loop = "stopped"
    /\ event_loop_running = FALSE
    /\ exited = FALSE

\* the sessions S connected, and no WatchList built by the program
InitWith(S) ==
    /\ InitSessions(S)
    /\ ioNames = [c \in Categories |-> <<>>]
    /\ built = NoWatchList
    /\ jsonStr = <<>>
    /\ kept = {}
    /\ parsed = NoWatchList
    /\ stage = "idle"

\* The watch registry of one connected session
InitWatch == InitWith({"s1"})
NextWatch ==
    \/ \E s \in Sessions, h \in Handlers, wl \in WatchIds, ad \in BOOLEAN,
          ok \in {TRUE} : Watch(s, h, wl, ad, ok)
    \/ \E s \in Sessions, id \in WatchIds : CancelWatch(s, id)
    \/ \E s \in Sessions, key \in WatchIds \cup {NoId} : EmitWatch(s, key)
    \/ PollBegin
    \/ PollDispatch
    \/ \E o \in {"true", "false", "raise"} : HandlerReturn(o)
    \/ PollSweep
SpecWatch == InitWatch /\ [][NextWatch]_vars

\* Connected sessions are terminated and reaped; no engine events
InitTerm == InitWith(Sessions)
NextTerm ==
    \/ \E s \in Sessions : Terminate(s)
    \/ \E s \in Sessions : ProcExit(s)
    \/ \E d \in TickSteps : Tick(d)
    \/ PollBegin
    \/ PollSweep
SpecTerm == InitTerm /\ [][NextTerm]_vars

\* The caller keeps polling: a poll that can start does start, and a poll
\* that has started runs to its end.
FairTerm == SpecTerm /\ WF_vars(PollBegin) /\ WF_vars(PollSweep)

\* Sessions are constructed, connect or fail to, are terminated and, once
\* their processes have exited, reaped
InitConnect == InitWith({})
NextConnect ==
    \/ \E s \in Sessions, h \in Handlers \cup {None} : Construct(s, h)
    \/ ConnectedCallback
    \/ ListenReturn
    \/ \E o \in {"true", "false", "raise"} : HandlerReturn(o)
    \/ \E s \in Sessions : Terminate(s)
    \/ \E s \in Sessions : ProcExit(s)
    \/ PollBegin
    \/ PollSweep
SpecConnect == InitConnect /\ [][NextConnect]_vars

\* One connected session with the three sorts of event: a completion
\* notification, a watch event and a list result
InitOrder == InitWith({"s1"})
NextOrder ==
    \/ \E s \in Sessions : OnSet(s, "success", "h1")
    \/ \E s \in Sessions : Watch(s, "h1", "w1", FALSE, TRUE)
    \/ \E s \in Sessions : ListQuery(s, "outputs", "h1")
    \/ \E s \in Sessions : EmitWatch(s, "w1")
    \/ \E s \in Sessions : EmitNotify(s, "success")
    \/ EngineReply
    \/ PollBegin
    \/ PollDispatch
    \/ \E o \in {"true", "false", "raise"} : HandlerReturn(o)
    \/ PollSweep
SpecOrder == InitOrder /\ [][NextOrder]_vars

\* One connected session whose callers block in runOnceAndWait; the
\* completion callables are set by the main program and by the handlers
InitWait == InitWith({"s1"})
NextWait ==
    \/ \E s \in Sessions, k \in WaitKinds, h \in {"h1", None} :
          OnSet(s, k, h)
    \/ \E s \in Sessions : RunOnceAndWait(s)
    \/ WaitPoll
    \/ WaitReturn
    \/ \E s \in Sessions, k \in WaitKinds : EmitNotify(s, k)
    \/ PollDispatch
    \/ \E o \in {"true", "false", "raise"} : HandlerReturn(o)
    \/ PollSweep
SpecWait == InitWait /\ [][NextWait]_vars

\* The loop of runOnceAndWait keeps polling, each poll runs to its end, and
\* the handlers return or raise
FairWait ==
    /\ SpecWait
    /\ WF_vars(WaitPoll)
    /\ WF_vars(WaitReturn)
    /\ WF_vars(PollDispatch)
    /\ WF_vars(PollSweep)
    /\ WF_vars(\E o \in {"true", "false", "raise"} : HandlerReturn(o))

\* One connected session whose callers use the bulk getters, from the main
\* program and from a success handler; the main program also issues list
\* queries of its own
GetCategories == {"inputs", "outputs"}
InitGet == InitWith({"s1"})
NextGet ==
    \/ \E s \in Sessions : OnSet(s, "success", "h1")
    \/ \E s \in Sessions, cat \in GetCategories :
          stack = <<>> /\ ListQuery(s, cat, "h1")
    \/ \E s \in Sessions, cat \in GetCategories : GetQuery(s, cat)
    \/ GetPoll
    \/ GetReturn
    \/ \E s \in Sessions : EmitNotify(s, "success")
    \/ EngineReply
    \/ PollDispatch
    \/ \E o \in {"true", "false", "raise"} : HandlerReturn(o)
    \/ PollSweep
SpecGet == InitGet /\ [][NextGet]_vars

\* The engine answers every request, a getter keeps polling, a poll that has
\* started runs to its end and a user callable returns.
FairGet ==
    /\ SpecGet
    /\ WF_vars(EngineReply)
    /\ WF_vars(GetPoll)
    /\ WF_vars(GetReturn)
    /\ WF_vars(PollDispatch)
    /\ WF_vars(PollSweep)
    /\ WF_vars(\E o \in {"true", "false", "raise"} : HandlerReturn(o))

\* A WatchList is built from lists of names, written as JSON and read back;
\* an engine sends a message of it that lacks a member
WireMembers == {Members \ {c} : c \in Members} \cup {{"id"}}
InitJson ==
    /\ InitSessions({})
    /\ ioNames \in [Categories -> NameLists]
    /\ built = NoWatchList
    /\ jsonStr = <<>>
    /\ kept = {}
    /\ parsed = NoWatchList
    /\ stage = "args"
NextJson ==
    \/ \E id \in Uuids : FromIONamesCall(id)
    \/ StrCall
    \/ \E F \in WireMembers : WireMessage(F)
    \/ FromJsonCall
SpecJson == InitJson /\ [][NextJson]_vars

\* One connected session with a watch and list queries, whose engine also
\* sends watch events and list results that carry no id
InitWire == InitWith({"s1"})
NextWire ==
    \/ \E s \in Sessions, ad \in BOOLEAN : Watch(s, "h1", "w1", ad, TRUE)
    \/ \E s \in Sessions, cat \in GetCategories : ListQuery(s, cat, "h1")
    \/ \E s \in Sessions, key \in {"w1", NoId} : EmitWatch(s, key)
    \/ EngineReply
    \/ EngineReplyNoId
    \/ PollBegin
    \/ PollDispatch
    \/ \E o \in {"true", "false", "raise"} : HandlerReturn(o)
    \/ PollSweep
SpecWire == InitWire /\ [][NextWire]_vars

\* One connected session whose watch requests the channel accepts or rejects
InitWatchCall == InitWith({"s1"})
NextWatchCall ==
    \/ \E s \in Sessions, h \in Handlers, wl \in WatchIds, ad \in BOOLEAN,
          ok \in BOOLEAN : Watch(s, h, wl, ad, ok)
    \/ \E s \in Sessions : EmitWatch(s, "w1")
    \/ PollBegin
    \/ PollDispatch
    \/ \E o \in {"true", "false", "raise"} : HandlerReturn(o)
    \/ PollSweep
SpecWatchCall == InitWatchCall /\ [][NextWatchCall]_vars

\* Connected sessions are terminated and polled, the event loop is run, and
\* the program ends; a child process exits when it chooses to, or never
InitExit == InitWith(Sessions)
NextExit ==
    \/ \E s \in Sessions : Terminate(s)
    \/ \E s \in Sessions : ProcExit(s)
    \/ StartEventLoop
    \/ StopEventLoop
    \/ EventLoopReturn
    \/ PollBegin
    \/ PollSweep
    \/ Atexit
SpecExit == InitExit /\ [][NextExit]_vars

\* Until the interpreter exits the caller keeps polling
FairExit == SpecExit /\ WF_vars(PollBegin) /\ WF_vars(PollSweep)

\* Sessions are terminated and polled while the wall clock runs, and is set
\* back by an hour
SecondsPerHour == 3600
InitClock == InitWith(Sessions)
NextClock ==
    \/ \E s \in Sessions : Terminate(s)
    \/ \E s \in Sessions : ProcExit(s)
    \/ \E d \in {1, terminate_timeout_sec} : Tick(d)
    \/ ClockSetBack(SecondsPerHour)
    \/ PollBegin
    \/ PollSweep
SpecClock == InitClock /\ [][NextClock]_vars

\* Two sessions, one of them with a watch that receives events, while they
\* are terminated, their processes exit, and the main program and the
\* handlers poll
InitDrain == InitWith(Sessions)
NextDrain ==
    \/ Watch("s1", "h1", "w1", FALSE, TRUE)
    \/ EmitWatch("s1", "w1")
    \/ \E s \in Sessions : Terminate(s)
    \/ \E s \in Sessions : ProcExit(s)
    \/ PollBegin
    \/ PollDispatch
    \/ \E o \in {"true", "false", "raise"} : HandlerReturn(o)
    \/ PollSweep
SpecDrain == InitDrain /\ [][NextDrain]_vars

\* The event loop drives the delivery: one session with a watch receives
\* events in the loop, is terminated, and the clock runs
InitLoop == InitWith({"s1"})
NextLoop ==
    \/ Watch("s1", "h1", "w1", FALSE, TRUE)
    \/ EmitWatch("s1", "w1")
    \/ Terminate("s1")
    \/ ProcExit("s1")
    \/ Tick(terminate_timeout_sec + 1)
    \/ StartEventLoop
    \/ LoopDispatch
    \/ HandlerReturn("true")
    \/ StopEventLoop
    \/ EventLoopReturn
    \/ PollBegin
    \/ PollDispatch
    \/ PollSweep
SpecLoop == InitLoop /\ [][NextLoop]_vars

\* The loop keeps delivering, handlers return, and a poll that was begun
\* runs to its end; nothing makes the caller begin a poll
FairLoop ==
    /\ SpecLoop
    /\ WF_vars(LoopDispatch)
    /\ WF_vars(HandlerReturn("true"))
    /\ WF_vars(PollDispatch)
    /\ WF_vars(PollSweep)

\* Two connected sessions use the same watch id, the same category and the
\* same kind of notification, the first with callable h1, the second with
\* h2; the main program registers, where nothing is registered yet, and
\* polls, the engine of the first session reports watch events and success,
\* and its handlers cancel its watch
InitShare == InitWith(Sessions)
NextShare ==
    \/ \E s \in Sessions :
          stack = <<>> /\ ~HasWatch(watches[s], "w1") /\ Watch(s, IF s = "s1" THEN "h1" ELSE "h2", "w1", FALSE, TRUE)
    \/ CancelWatch("s1", "w1")
    \/ \E s \in Sessions :
          stack = <<>> /\ listRequests[s]["outputs"] = NoReq /\ ListQuery(s, "outputs", IF s = "s1" THEN "h1" ELSE "h2")
    \/ \E s \in Sessions :
          stack = <<>> /\ onFunc[s]["success"] = None /\ OnSet(s, "success", IF s = "s1" THEN "h1" ELSE "h2")
    \/ EmitWatch("s1", "w1")
    \/ EmitNotify("s1", "success")
    \/ EngineReply
    \/ (stack = <<>> /\ PollBegin)
    \/ PollDispatch
    \/ HandlerReturn("true")
    \/ PollSweep
SpecShare == InitShare /\ [][NextShare]_vars

\* The list queries of one connected session
InitList == InitWith({"s1"})
NextList ==
    \/ \E s \in Sessions, cat \in Categories, h \in Handlers : ListQuery(s, cat, h)
    \/ EngineReply
    \/ PollBegin
    \/ PollDispatch
    \/ \E o \in {"true", "false", "raise"} : HandlerReturn(o)
    \/ PollSweep
SpecList == InitList /\ [][NextList]_vars

\* The success, failed and error handlers of one connected session
InitNotify == InitWith({"s1"})
NextNotify ==
    \/ \E s \in Sessions, k \in Kinds, h \in Handlers : OnSet(s, k, h)
    \/ \E s \in Sessions, k \in Kinds : EmitNotify(s, k)
    \/ PollBegin
    \/ PollDispatch
    \/ \E o \in {"true", "false", "raise"} : HandlerReturn(o)
    \/ PollSweep
SpecNotify == InitNotify /\ [][NextNotify]_vars

(***************************************************************************)
(* The watch registry: claims C1 to C4, under SpecWatch.                   *)
(***************************************************************************)
WatchDelivering(s, w) ==
    \E i \in DOMAIN stack :
        /\ stack[i].kind = "handler" /\ stack[i].cb = "watch"
        /\ stack[i].ws = s /\ stack[i].key = w

\* C1: the handler of an autodelete registration is invoked at most once,
\* whatever it returns or raises, and once its first delivery has completed
\* the id is no longer in the registry.
C1_AutoDeleteAtMostOnce ==
    \A s \in Sessions, w \in WatchIds :
        (HasWatch(watches[s], w) /\ watches[s][w].ad) =>
            /\ fired[s][w] <= 1
            /\ (fired[s][w] = 1 => WatchDelivering(s, w))

\* C2: while the handler of an autodelete watch executes, the registration
\* that is being delivered is not in the registry: it was removed before the
\* handler started.
C2_RemovedBeforeHandler ==
    \A i \in DOMAIN stack :
        (stack[i].kind = "handler" /\ stack[i].cb = "watch" /\ stack[i].ad) =>
            ~(HasWatch(watches[stack[i].ws], stack[i].key)
              /\ fired[stack[i].ws][stack[i].key] >= 1)

\* C3: cancelWatch raises no error whether or not the id is registered, asks
\* the channel to stop watching, and leaves the id absent from the registry.
C3_CancelWatchIdempotent ==
    last.op = "cancelWatch" =>
        /\ last.err = "none"
        /\ last.ack = "sent"
        /\ ~HasWatch(watches[last.ws], last.key)

\* C4: the delivery of a watch event whose id is not in the registry of its
\* session invokes no handler, raises no error and leaves the registry as it
\* was.
C4_UnknownWatchEventIgnored ==
    [][(/\ InPoll
        /\ pending # <<>>
        /\ pending' = Tail(pending)
        /\ Head(pending).kind = "watch"
        /\ ~HasWatch(watches[Head(pending).ws], Head(pending).key))
       => (/\ stack' = stack
           /\ watches' = watches
           /\ fired' = fired
           /\ last'.op = "watchEvent"
           /\ last'.err = "none")]_vars

\* An event for a registered-then-cancelled id has been delivered and ignored.
C4_Witness ==
    /\ last.op = "watchEvent"
    /\ last.key \in WatchIds
    /\ last.err = "none"
    /\ last.ack = None
    /\ InPoll

(***************************************************************************)
(* Termination: claims C5 to C7, under SpecTerm and FairTerm.              *)
(***************************************************************************)
Queued(s) == \E i \in DOMAIN terminating : terminating[i].ws = s

\* _cleanup has run for s
Cleaned(s) ==
    /\ phase[s] = "cleaned"
    /\ procState[s] # "running"
    /\ ~procRef[s]
    /\ s \notin registered

Finalized(s) == Cleaned(s) /\ ~Queued(s)

\* The sweep's own test finds a record of s past the timeout.  The days that
\* timedelta.seconds drops only make the test miss: whenever it holds, the
\* elapsed time does exceed the timeout.
PastTimeout(s) ==
    \E i \in DOMAIN terminating :
        terminating[i].ws = s /\ TimedOut(terminating[i].t)

\* C5: a session that was asked to terminate and whose process is still
\* running after the timeout is force-killed by polling, once and never
\* twice, and finalized (unless its process exits by itself after all).
C5_ForcedKillExactlyOnce ==
    /\ [](\A s \in Sessions : kills[s] <= 1)
    /\ \A s \in Sessions :
          [](( procState[s] = "running" /\ PastTimeout(s))
             => <>(procState[s] = "exited" \/ (kills[s] = 1 /\ Cleaned(s))))

\* C6: one poll processes every entry of the queue: each entry whose process
\* had exited, or was running past the timeout, is gone when the poll
\* returns, and its session is finalized.
C6_SweepSkipsNoEntry ==
    [][(InPoll /\ pending = <<>> /\ stack' = Pop(stack))
       => \A i \in DOMAIN terminating :
            LET r == terminating[i]
            IN  (procState[r.ws] # "running" \/ TimedOut(r.t))
                => /\ \A j \in DOMAIN terminating' : terminating'[j] # r
                   /\ phase'[r.ws] = "cleaned"
                   /\ r.ws \notin registered'
                   /\ procState'[r.ws] # "running"]_vars

\* C7: under repeated polling every session asked to terminate whose process
\* has exited, or hangs past the timeout, is eventually finalized: its
\* process not running, no record of it in the queue, not in the registry.
C7_EventuallyFinalized ==
    \A s \in Sessions :
        []((Queued(s) /\ (procState[s] # "running" \/ PastTimeout(s)))
           => <>Finalized(s))

(***************************************************************************)
(* List queries.                                                           *)
(***************************************************************************)
\* A poll is delivering a list result
ListDelivery ==
    /\ InPoll
    /\ pending # <<>>
    /\ Head(pending).kind = "list"
    /\ pending' = Tail(pending)

\* C8: when a second list query for a category is issued before the result
\* of the first has been delivered, the delivery of the first result invokes
\* no callback and raises nothing, and whenever a list callback is invoked
\* it is handed the result of the query that stored it.
C8_SecondQuerySupersedesFirst ==
    [][ListDelivery =>
        LET e    == Head(pending)
            slot == listRequests[e.ws][e.key]
        IN  /\ (slot # NoReq /\ e.tag < slot.req) =>
                    /\ stack' = stack
                    /\ last'.err = "none"
            /\ stack' # stack =>
                    /\ stack'[Len(stack')].cb = "list"
                    /\ stack'[Len(stack')].tag = stack'[Len(stack')].req]_vars

\* C9: the delivery of a list result for a category whose slot is empty
\* invokes no callback, raises no error and leaves the list slots as they are.
C9_EmptySlotDeliveryDropped ==
    [][(ListDelivery /\ ~HasListRequest(listRequests[Head(pending).ws],
                                         Head(pending).key)) =>
        /\ stack' = stack
        /\ listRequests' = listRequests
        /\ last'.err = "none"]_vars

(***************************************************************************)
(* Success, failed and error handlers.                                     *)
(***************************************************************************)
\* C10: when a success, failed or error handler raises, the exception stays
\* inside the dispatcher: the poll that delivered the event goes on, the
\* channel is acknowledged with a true value, and the watch registry, the
\* list slots, the registered handlers, the registry of sessions and the
\* termination queue are as they were.
C10_HandlerExceptionContained ==
    [][(/\ Top.kind = "handler"
        /\ Top.cb \in Kinds
        /\ stack' = Pop(stack)
        /\ last'.raised) =>
        /\ last'.op = Top.cb
        /\ last'.err = "none"
        /\ last'.ack = "true"
        /\ stack'[Len(stack')].kind = "poll"
        /\ UNCHANGED <<watches, listRequests, onFunc, registered, terminating>>]_vars

\* a handler has raised and the poll that called it is still running
C10_Witness ==
    /\ last.raised
    /\ last.op \in Kinds
    /\ last.err = "none"
    /\ last.ack = "true"
    /\ InPoll

(***************************************************************************)
(* Re-registration of a watch.                                             *)
(***************************************************************************)
\* C11: after a watch call has replaced the registration of an id, the next
\* event for that id invokes the handler of that call with the autodelete
\* flag of that call, and no other handler.
C11_LastRegistrationWins ==
    [][(/\ InPoll
        /\ pending # <<>>
        /\ pending' = Tail(pending)
        /\ Head(pending).kind = "watch"
        /\ Head(pending).key \in WatchIds
        /\ latest[Head(pending).ws][Head(pending).key].over)
       => LET e == Head(pending)
              l == latest[e.ws][e.key]
          IN  stack' = Append(stack, HandlerFrame("watch", e.ws, e.key, l.ad,
                                                  l.h, 0, 0))]_vars

(***************************************************************************)
(* The life of a session: claims C12 to C15.                               *)
(***************************************************************************)
\* C12: a session is in the registry of sessions exactly while it is
\* connected: not while it spawns, not after a failed connect, from the
\* connected callback on, and never again once cleanup has run.
C12_RegisteredIffConnected ==
    \A s \in Sessions : s \in registered <=> phase[s] = "connected"

\* one session has been reaped and left the registry, another is in it
C12_Witness ==
    \E s, t \in Sessions :
        /\ phase[s] = "cleaned" /\ s \notin registered
        /\ phase[t] = "connected" /\ t \in registered

\* C13: once a session has been finalized by poll, its process reference is
\* released, it is not in the registry of sessions, and no record of the
\* queue of terminating processes refers to it.
C13_FinalizedLeavesNothing ==
    \A s \in Sessions :
        phase[s] = "cleaned" =>
            /\ ~procRef[s]
            /\ s \notin registered
            /\ ~Queued(s)

\* C14: when the wait for the connection fails, the constructor raises the
\* connection error, and the session is not in the registry, has no record
\* in the queue of terminating processes, and its process is never killed by
\* the supervisor: the session object alone still refers to it.
C14_FailedConnectLeavesNoTrace ==
    /\ \A s \in Sessions :
          phase[s] = "failed" =>
              /\ s \notin registered
              /\ ~Queued(s)
              /\ kills[s] = 0
              /\ procState[s] \in {"running", "exited"}
              /\ procRef[s]
    /\ last.op = "construct" =>
          (last.err = "RuntimeError" <=> phase[last.ws] = "failed")

\* the connect of a session failed, and its terminate has queued nothing
C14_Witness ==
    /\ last.op = "terminate"
    /\ last.ws \in Sessions
    /\ last.err = "AttributeError"
    /\ phase[last.ws] = "failed"
    /\ procState[last.ws] = "running"

\* C15: the connected callback of a session runs once; when it runs the
\* session has its identity, is in the registry, has its three dispatchers
\* registered with the channel, and onConnected is invoked if there is one;
\* with no onConnected the session connects without an error.
C15_ConnectedCallbackOnce ==
    [][(/\ Top.kind = "init"
        /\ phase[Top.ws] = "spawning"
        /\ phase'[Top.ws] # "spawning"
        /\ stack' # Pop(stack))
       => (/\ phase'[Top.ws] = "connected"
           /\ Top.ws \in registered'
           /\ hooked'[Top.ws] = Kinds
           /\ connects'[Top.ws] = 1
           /\ last' = last
           /\ Top.h # None =>
                  stack' = Append(stack, HandlerFrame("connected", Top.ws, None,
                                                      FALSE, Top.h, 0, 0)))]_vars

DeliveredSince(f, k) == notified[f.ws][k].n - f.snap[k].n
InvokedSince(f, k) == notified[f.ws][k].inv - f.snap[k].inv

\* C17: runOnceAndWait returns without an error, and only after a success or
\* a failed notification of its session has been delivered by its own
\* polling; it returns true when the notification delivered was the success
\* one and false when it was the failed one, and the callable registered for
\* that outcome has been invoked by then.
C17_RunOnceAndWait ==
    [][(/\ Top.kind = "wait"
        /\ Top.cb = "runOnceAndWait"
        /\ stack' = Pop(stack))
       => (/\ last'.op = "runOnceAndWait"
           /\ last'.err = "none"
           /\ DeliveredSince(Top, "success") + DeliveredSince(Top, "failed") >= 1
           /\ DeliveredSince(Top, "failed") = 0 =>
                  /\ last'.ack = "true"
                  /\ onFunc[Top.ws]["success"] # None =>
                         InvokedSince(Top, "success") >= 1
           /\ DeliveredSince(Top, "success") = 0 =>
                  /\ last'.ack = "false"
                  /\ onFunc[Top.ws]["failed"] # None =>
                         InvokedSince(Top, "failed") >= 1)]_vars

\* the bulk getter that issued query q is polling for its result
Getting(q) ==
    \E i \in DOMAIN stack :
        stack[i].kind = "wait" /\ stack[i].cb = "get" /\ stack[i].req = q

\* C18: a bulk getter issues one list query of its category and polls by
\* itself; when it returns, it returns the mapping of its category from a
\* list result of that category delivered to the session while it waited,
\* and the list slot of the category is empty; and once the engine has
\* answered, the getter does return.
C18_GetterReturnsDeliveredList ==
    /\ [][(/\ Top.kind = "wait"
           /\ Top.cb = "get"
           /\ stack' = Pop(stack))
          => (/\ last'.op = "get"
              /\ last'.key = Top.key
              /\ last'.tag \in 1..Top.req
              /\ ~HasListRequest(listRequests'[Top.ws], Top.key))]_vars
    /\ \A q \in 1..MaxQueries : Getting(q) ~> ~Getting(q)

(***************************************************************************)
(* WatchList.                                                              *)
(***************************************************************************)
\* the names of a list
Elements(names) == {names[i] : i \in DOMAIN names}

\* C19: a WatchList built with fromIONames, written with str() and read back
\* with fromJson has the same id and, in each of the three categories,
\* exactly the names requested, each mapped to an empty entry; a category
\* for which no name was requested is empty.
C19_RoundTrip ==
    stage = "roundtrip" =>
        /\ parsed.kind = "WatchList"
        /\ parsed.id = built.id
        /\ \A c \in Categories :
              /\ Keys(parsed[c]) = Elements(ioNames[c])
              /\ Len(parsed[c].m) = Cardinality(Elements(ioNames[c]))
              /\ \A i \in DOMAIN parsed[c].m : parsed[c].m[i].v = EmptyDict
              /\ ioNames[c] = <<>> => parsed[c] = EmptyDict

C19_Witness ==
    /\ stage = "roundtrip"
    /\ ioNames["inputs"] = <<>>
    /\ ioNames["globalNames"] = <<>>
    /\ ioNames["outputs"] = << <<Quote, Backslash>>, <<"a">> >>
    /\ Len(parsed["outputs"].m) = 2

\* fromJson gives None exactly for a message that has no id member, and for
\* a message that has one a WatchList with the mappings the message carries
\* and empty mappings for those it lacks
FromJsonOfMessage ==
    stage = "received" =>
        /\ parsed.kind = (IF "id" \in kept THEN "WatchList" ELSE "None")
        /\ "id" \in kept =>
              /\ parsed.id = built.id
              /\ \A c \in Categories :
                    parsed[c] = IF c \in kept THEN built[c] ELSE EmptyDict

\* the event the poll in progress delivers next carries a message without id
NoIdDelivery ==
    /\ InPoll
    /\ pending # <<>>
    /\ \/ Head(pending).kind = "watch" /\ Head(pending).key = NoId
       \/ Head(pending).kind = "list" /\ Head(pending).id = NoId
    /\ pending' = Tail(pending)

\* C20: a watch event or a list result whose message has no id is dropped:
\* its delivery calls no user handler, so no handler is ever handed a null
\* WatchList, and it raises no error.
C20_NoIdMessageDropped ==
    /\ [](\A i \in DOMAIN stack :
            /\ (stack[i].kind = "handler" /\ stack[i].cb = "watch")
                  => stack[i].key # None
            /\ (stack[i].kind = "handler" /\ stack[i].cb = "list")
                  => stack[i].tag # 0)
    /\ [][NoIdDelivery => (stack' = stack /\ last'.err = "none")]_vars

(***************************************************************************)
(* Watches: claims C21 to C23.                                             *)
(***************************************************************************)
\* the poll in progress delivers a watch event of session s with id w
WatchDelivery(s, w) ==
    /\ InPoll
    /\ pending # <<>>
    /\ Head(pending).kind = "watch"
    /\ Head(pending).ws = s
    /\ Head(pending).key = w
    /\ pending' = Tail(pending)

\* C21: a registration made with autoDelete false stays in the registry of
\* its session until cancelWatch (or a new watch call) for its id, and every
\* event delivered for the id while it is registered invokes its handler,
\* once.
C21_PersistentWatchStays ==
    [][\A s \in Sessions, w \in WatchIds :
          (HasWatch(watches[s], w) /\ ~watches[s][w].ad) =>
              /\ watches'[s][w] # watches[s][w] =>
                    /\ last'.op \in {"watch", "cancelWatch"}
                    /\ last'.ws = s
                    /\ last'.key = w
              /\ WatchDelivery(s, w) =>
                    /\ stack' = Append(stack, HandlerFrame("watch", s, w, FALSE,
                                                           watches[s][w].h, 0, 0))
                    /\ fired'[s][w] = fired[s][w] + 1]_vars

\* C22: the delivery of a watch event invokes the handler registered under
\* the id the delivered WatchList carries, with the session the event
\* belongs to and that WatchList; and what the handler returns is what the
\* channel receives as the acknowledgement.
C22_HandlerOfDeliveredId ==
    /\ [][\A s \in Sessions, w \in WatchIds :
            (WatchDelivery(s, w) /\ HasWatch(watches[s], w)) =>
                \E f \in {stack'[Len(stack')]} :
                    /\ stack' = Append(stack, f)
                    /\ f.kind = "handler" /\ f.cb = "watch"
                    /\ f.h = watches[s][w].h
                    /\ f.ws = s
                    /\ f.key = w]_vars
    /\ [][\A o \in {"true", "false"} :
            (Top.cb = "watch" /\ HandlerReturn(o)) =>
                (last'.err = "none" /\ last'.ack = o)]_vars

\* C23: watch returns the id of the WatchList when the channel accepts the
\* request and None when it rejects it; either way the handler is registered
\* under the id when watch returns, and an event delivered right after the
\* call invokes it.
C23_WatchRegistersThenAsks ==
    /\ [](last.op = "watch" =>
            /\ last.err = "none"
            /\ HasWatch(watches[last.ws], last.key))
    /\ [][\A s \in Sessions, h \in Handlers, wl \in WatchIds, ad \in BOOLEAN,
             ok \in BOOLEAN :
            Watch(s, h, wl, ad, ok) =>
                /\ last'.ack = (IF ok THEN wl ELSE None)
                /\ watches'[s][wl] = [h |-> h, ad |-> ad]]_vars
    /\ [][\A s \in Sessions, w \in WatchIds :
            (WatchDelivery(s, w) /\ last.op = "watch" /\ last.ws = s
             /\ last.key = w) =>
                stack' = Append(stack, HandlerFrame("watch", s, w, watches[s][w].ad,
                                                    watches[s][w].h, 0, 0))]_vars

\* the channel rejected a watch request and the event delivered right after
\* the call has invoked the handler
C23_Witness ==
    /\ last.op = "watch"
    /\ last.ack = None
    /\ Top.kind = "handler"
    /\ Top.cb = "watch"
    /\ Top.ws = last.ws
    /\ Top.key = last.key

(***************************************************************************)
(* Notifications: claim C24.                                               *)
(***************************************************************************)
\* the poll in progress delivers a notification of kind k of session s
NotifyDelivery(s, k) ==
    /\ InPoll
    /\ pending # <<>>
    /\ Head(pending).kind = k
    /\ Head(pending).ws = s
    /\ pending' = Tail(pending)

\* C24: the delivery of a success, failed or error notification invokes,
\* once, the callable that the latest onSuccess, onFailed or onError call of
\* its session registered for that kind, and no other callable; notification
\* handlers run only through such a delivery.
C24_NotificationInvokesItsHandler ==
    /\ [][\A s \in Sessions, k \in Kinds :
            (NotifyDelivery(s, k) /\ onFunc[s][k] # None) =>
                stack' = Append(stack, HandlerFrame(k, s, None, FALSE, onFunc[s][k],
                                                    0, Len(wrappers[s][k])))]_vars
    /\ [](\A i \in DOMAIN stack :
            (stack[i].kind = "handler" /\ stack[i].cb \in Kinds) =>
                /\ i > 1
                /\ stack[i - 1].kind = "poll"
                /\ \A j \in DOMAIN stack :
                      (j > i /\ stack[j].kind = "handler") => stack[j - 1].kind = "poll")

\* an error notification is being handled by the callable registered for
\* errors while another callable is registered for success
C24_Witness ==
    /\ Top.kind = "handler"
    /\ Top.cb = "error"
    /\ Top.h = "h2"
    /\ onFunc[Top.ws]["error"] = "h2"
    /\ onFunc[Top.ws]["success"] = "h1"

(***************************************************************************)
(* The exit hook: claim C25.                                               *)
(***************************************************************************)
\* C25: once the exit hook has run the event loop is not running, every
\* session of the registry has a termination record, and the process of
\* every such session ends up not running, also when it ignores the request.
C25_ExitHookShutsDownAll ==
    /\ [](exited => loop = "stopped")
    /\ [](exited => \A s \in registered : Queued(s))
    /\ \A s \in Sessions :
          [](exited /\ s \in registered => <>(procState[s] # "running"))

(***************************************************************************)
(* The sweep of poll: claims C26 to C29.                                   *)
(***************************************************************************)
\* C26: under repeated polling a connected session whose process has exited,
\* asked to or not, is eventually finalized: its handler references
\* released, its registry entry removed, no record of it left in the queue.
C26_ExitedSessionFinalized ==
    \A s \in Sessions :
        [](procState[s] \in {"exited", "killed"} => <>Finalized(s))

\* the records of session s in the queue
RecordsOf(q, s) == SelectSeq(q, LAMBDA r : r.ws = s)

\* C27: the sweep of a poll leaves alone every session that has no
\* termination record, and every queued session whose process is running and
\* whose requests are each no older than the timeout: such a session is not
\* killed, not finalized, and keeps its records with their timestamps.
C27_SweepLeavesOthersAlone ==
    [][(InPoll /\ pending = <<>> /\ stack' = Pop(stack)) =>
        \A s \in Sessions :
            (\/ ~Queued(s)
             \/ /\ procState[s] = "running"
                /\ \A i \in DOMAIN terminating :
                      terminating[i].ws = s =>
                          now - terminating[i].t <= terminate_timeout_sec)
            => /\ procState'[s] = procState[s]
               /\ kills'[s] = kills[s]
               /\ phase'[s] = phase[s]
               /\ procRef'[s] = procRef[s]
               /\ (s \in registered') = (s \in registered)
               /\ RecordsOf(terminating', s) = RecordsOf(terminating, s)]_vars

\* C28: a poll whose sweep finds, at the head of the queue, a session whose
\* process is still running and whose terminate request is older than
\* terminate_timeout_sec (by any amount, a day or more included) force-kills
\* that process.
C28_KillsAfterTimeout ==
    [][(/\ InPoll /\ pending = <<>> /\ stack' = Pop(stack)
        /\ terminating # <<>>
        /\ procState[terminating[1].ws] = "running"
        /\ now - terminating[1].t > terminate_timeout_sec)
       => /\ procState'[terminating[1].ws] = "killed"
          /\ kills'[terminating[1].ws] = kills[terminating[1].ws] + 1]_vars

\* C29: in a poll the events are delivered before the queue is swept.  When a
\* poll finalizes a session no event of that session is left undelivered,
\* and no handler is invoked for a session that has been finalized.
C29_DrainedBeforeSwept ==
    [][\A s \in Sessions :
        /\ (phase[s] # "cleaned" /\ phase'[s] = "cleaned")
              => /\ \A i \in DOMAIN pending : pending[i].ws # s
                 /\ \A i \in DOMAIN pending' : pending'[i].ws # s
        /\ (/\ Len(stack') = Len(stack) + 1
            /\ stack'[Len(stack')].kind = "handler"
            /\ stack'[Len(stack')].ws = s)
              => phase[s] # "cleaned"]_vars
\* the handler of a watch runs for an event of a session that is in the
\* queue and whose process has exited, and the session is not yet finalized
C29_Witness ==
    \E s \in Sessions :
        /\ Queued(s)
        /\ procState[s] = "exited"
        /\ phase[s] = "connected"
        /\ Top.kind = "handler" /\ Top.cb = "watch" /\ Top.ws = s

(***************************************************************************)
(* The slot of a list query across a delivery: claim C30.                  *)
(***************************************************************************)
\* C30: when the delivery of a list result completes, the slot of its
\* category holds the callback of a query that the callback issued for the
\* same category while it ran, if it issued one, and is empty otherwise,
\* also when the callback raised.
C30_SlotClearedBeforeCall ==
    [][\A o \in {"true", "false", "raise"} :
        (Top.kind = "handler" /\ Top.cb = "list" /\ HandlerReturn(o))
        => LET slot == listRequests[Top.ws][Top.key]
           IN  listRequests'[Top.ws][Top.key] =
                   IF slot # NoReq /\ slot.req > Top.req THEN slot ELSE NoReq]_vars

(***************************************************************************)
(* The event loop as the driver: claim C31.                                *)
(***************************************************************************)
\* C31: while the event loop runs, a session that was asked to terminate,
\* whose process is still running and whose request is older than the
\* timeout, is force-killed (or its process ends, or the loop is stopped).
C31_LoopKillsHung ==
    \A s \in Sessions :
        (loop = "running" /\ procState[s] = "running" /\ PastTimeout(s))
            ~> (procState[s] # "running" \/ loop # "running")

(***************************************************************************)
(* terminate called again: claims C32 and C37.                             *)
(***************************************************************************)
\* C32: however often terminate was called on a session before it was
\* finalized, no poll ends with an error, and once the session is finalized
\* the queue holds no record of it.
C32_RepeatedTerminateHarmless ==
    /\ last.op = "poll" => last.err = "none"
    /\ \A s \in Sessions : phase[s] = "cleaned" => RecordsOf(terminating, s) = <<>>

\* C37: terminate on a session that has been finalized sends nothing, adds
\* no record, and leaves the registry and the queue as they were.
C37_TerminateAfterFinalizeNoOp ==
    [][\A s \in Sessions :
        (phase[s] = "cleaned" /\ Terminate(s))
        => /\ terminating' = terminating
           /\ registered' = registered
           /\ last'.ack # "sent"
           /\ last'.err = "none"]_vars
\* terminate has returned on a finalized session
C37_Witness ==
    \E s \in Sessions :
        /\ phase[s] = "cleaned"
        /\ last.op = "terminate" /\ last.ws = s

(***************************************************************************)
(* runOnceAndWait and the completion handlers: claims C33 and C34.         *)
(***************************************************************************)
\* the main program is in runOnceAndWait
MainWaits ==
    /\ stack # <<>>
    /\ stack[1].kind = "wait"
    /\ stack[1].cb = "runOnceAndWait"

\* a handler is itself in runOnceAndWait
NestedWait == \E i \in DOMAIN stack : i > 1 /\ stack[i].kind = "wait"

\* C33: once a success or a failed notification has been delivered to the
\* session while the main program is in runOnceAndWait, that call returns
\* (unless a handler has begun a runOnceAndWait of its own, which the call
\* of the main program then waits for).
C33_WaitReturnsOnceNotified ==
    (/\ MainWaits
     /\ DeliveredSince(stack[1], "success") + DeliveredSince(stack[1], "failed") >= 1)
        ~> (~MainWaits \/ NestedWait)

\* C34: runOnceAndWait keeps the callables of the user, on entry and on
\* return; a success or failed notification delivered after any number of
\* runOnceAndWait calls invokes, once, the callable registered for its kind;
\* and a runOnceAndWait ends only after a success or failed notification has
\* been delivered since it began.
C34_WaitKeepsHandlers ==
    [][/\ \A s \in Sessions : RunOnceAndWait(s) => onFunc' = onFunc
       /\ (Top.kind = "wait" /\ Top.cb = "runOnceAndWait" /\ stack' = Pop(stack))
             => /\ onFunc' = onFunc
                /\ DeliveredSince(Top, "success") + DeliveredSince(Top, "failed") >= 1
       /\ \A s \in Sessions, k \in WaitKinds :
             (NotifyDelivery(s, k) /\ onFunc[s][k] # None /\ wrappers[s][k] # <<>>)
             => /\ Len(stack') = Len(stack) + 1
                /\ stack'[Len(stack')].kind = "handler"
                /\ stack'[Len(stack')].cb = k
                /\ stack'[Len(stack')].h = onFunc[s][k]
                /\ notified'[s][k].inv = notified[s][k].inv + 1]_vars
\* a first runOnceAndWait has returned and the main program is in a second
\* one, whose poll has the success notification handled by the callable of
\* the user, through both WrapperFunc objects
C34_Witness ==
    /\ Len(stack) = 3
    /\ stack[1].kind = "wait" /\ stack[1].cb = "runOnceAndWait"
    /\ stack[2].kind = "poll"
    /\ Top.kind = "handler" /\ Top.cb = "success" /\ Top.h = "h1"
    /\ Top.req = 2
    /\ Len(wrappers[Top.ws]["success"]) = 2

(***************************************************************************)
(* A watch request that the channel rejects: claim C35.                    *)
(***************************************************************************)
\* C35: a watch call that the channel rejects leaves the watches of the
\* session as they were before the call.
C35_RejectedWatchLeavesRegistry ==
    [][\A s \in Sessions, h \in Handlers, wl \in WatchIds, ad \in BOOLEAN :
        Watch(s, h, wl, ad, FALSE) => watches'[s] = watches[s]]_vars

(***************************************************************************)
(* Two sessions side by side: claim C36.                                   *)
(***************************************************************************)
\* what a session holds of callables: its watches, its list-query slots and
\* its completion callables
Registry(t) == <<watches[t], listRequests[t], onFunc[t], wrappers[t]>>

\* a call of the user on session s: watch, cancelWatch, a list query,
\* onSuccess, onFailed or onError
CallOn(s) ==
    /\ InUserCode
    /\ Len(stack') = Len(stack)
    /\ pending' = pending
    /\ last'.ws = s
    /\ last'.op \in {"watch", "cancelWatch", "listQuery", "on"}
\* an event of session s is delivered
DeliveryTo(s) ==
    /\ InPoll
    /\ pending # <<>>
    /\ Head(pending).ws = s
    /\ pending' = Tail(pending)
\* a callable invoked for session s returns
ReturnFrom(s) ==
    /\ Top.kind = "handler"
    /\ Top.ws = s
    /\ stack' = Pop(stack)

\* C36: a call on one session, the delivery of one of its events and the
\* return of one of its callables change no watch, list-query slot or
\* completion callable of another session; and a delivery invokes a callable
\* only for the session of the event, one that this session holds.
C36_SessionsApart ==
    [][\A s \in Sessions :
        /\ (CallOn(s) \/ DeliveryTo(s) \/ ReturnFrom(s))
              => \A t \in Sessions \ {s} : Registry(t)' = Registry(t)
        /\ (DeliveryTo(s) /\ Len(stack') = Len(stack) + 1)
              => /\ stack'[Len(stack')].kind = "handler"
                 /\ stack'[Len(stack')].ws = s
                 /\ stack'[Len(stack')].h \in
                        {watches[s][w].h : w \in WatchIds}
                        \cup {listRequests[s][c].h : c \in Categories}
                        \cup {onFunc[s][k] : k \in Kinds}]_vars
\* both sessions hold a watch under the same id, a query of the same
\* category and a success callable, and a watch event of the first is being
\* handled by its callable
C36_Witness ==
    /\ watches["s1"]["w1"].h = "h1"
    /\ watches["s2"]["w1"].h = "h2"
    /\ listRequests["s1"]["outputs"].h = "h1"
    /\ listRequests["s2"]["outputs"].h = "h2"
    /\ onFunc["s1"]["success"] = "h1"
    /\ onFunc["s2"]["success"] = "h2"
    /\ Top.kind = "handler" /\ Top.cb = "watch" /\ Top.ws = "s1" /\ Top.h = "h1"

(***************************************************************************)
(* A notification with no callable registered: claim C38.                  *)
(***************************************************************************)
\* C38: the delivery of a success, failed or error notification to a session
\* that has no callable registered for that kind is acknowledged with a true
\* value, ends without an error inside the poll, and changes nothing of the
\* sessions, the registry and the queue.
C38_NoHandlerAcknowledged ==
    [][\A s \in Sessions, k \in Kinds :
        (NotifyDelivery(s, k) /\ onFunc[s][k] = None)
        => /\ last'.op = k
           /\ last'.err = "none"
           /\ last'.ack = "true"
           /\ stack' = stack
           /\ UNCHANGED <<lifeVars, watches, listRequests, onFunc>>]_vars
====
